---- MODULE Spec2Model ----
(***************************************************************************)
(* The provisioning pipeline of terraform_lambda: the three Lambda         *)
(* handlers nlp_converter (Convert), terraform_validator (Validate) and    *)
(* terraform_applier (Apply), the artifact store (S3), the notification    *)
(* channel (SNS) and the sandbox directory of one invocation.              *)
(*                                                                         *)
(* Text is a sequence of tokens: one token per punctuation character       *)
(* (backtick, brace, double quote, backslash, line break, blank) and one   *)
(* token per word.                                                         *)
(***************************************************************************)
EXTENDS Integers, Sequences, FiniteSets, TLC

\* ------------------------------------------------------------------ bounds

\* The number of request identifiers uuid4 may mint in one behaviour.
MaxRequests == 1

\* ------------------------------------------------------------------ text

\* The punctuation tokens: backtick, line break, blank, double quote, backslash.
BT == "bt"
NL == "nl"
SP == "sp"
QT == "qt"
BS == "bs"

Whitespace == {NL, SP}

\* Python's s[a:b] for 0 <= a, on a token sequence (0-based, b exclusive).
Slice(s, a, b) ==
    IF b <= a THEN << >> ELSE SubSeq(s, a + 1, IF b > Len(s) THEN Len(s) ELSE b)

\* TRUE iff pat occurs in s at 0-based offset i.
OccursAt(s, pat, i) ==
    /\ i >= 0
    /\ i + Len(pat) <= Len(s)
    /\ \A k \in 1..Len(pat) : s[i + k] = pat[k]

\* str.find(pat, from): the lowest 0-based offset >= from, or -1.
FindFrom(s, pat, from) ==
    LET hits == {i \in from..Len(s) : OccursAt(s, pat, i)}
    IN  IF hits = {} THEN -1 ELSE CHOOSE i \in hits : \A j \in hits : i <= j

Find(s, pat) == FindFrom(s, pat, 0)

\* str.rfind(pat): the highest 0-based offset, or -1.
RFind(s, pat) ==
    LET hits == {i \in 0..Len(s) : OccursAt(s, pat, i)}
    IN  IF hits = {} THEN -1 ELSE CHOOSE i \in hits : \A j \in hits : i >= j

\* pat in s
Contains(s, pat) == Find(s, pat) >= 0

\* The words of the model's vocabulary whose characters contain the given text.
WordsWith(text) ==
    CASE text = "provider" -> {"provider", "required_providers"}
      [] text = "region"   -> {"region", "skip_region_validation"}
      [] OTHER             -> {text}

\* text in s, for a text made of letters only: it lies inside one word of s.
InText(s, text) == \E i \in 1..Len(s) : s[i] \in WordsWith(text)

StartsWith(s, pat) == OccursAt(s, pat, 0)

\* str.count(tok) for a single token.
Count(s, tok) == Cardinality({i \in 1..Len(s) : s[i] = tok})

\* str.rstrip(), str.lstrip(), str.strip()
RECURSIVE RStrip(_)
RStrip(s) ==
    IF s # << >> /\ s[Len(s)] \in Whitespace THEN RStrip(SubSeq(s, 1, Len(s) - 1)) ELSE s

RECURSIVE LStrip(_)
LStrip(s) ==
    IF s # << >> /\ s[1] \in Whitespace THEN LStrip(Tail(s)) ELSE s

Strip(s) == LStrip(RStrip(s))

\* The tokens that are one character long.
SingleChars == {BT, NL, SP, QT, BS, "{", "}", "=", "#"}

\* A word after str.replace('', new): new stands between its letters, so no
\* text of two letters or more occurs in it any longer. The copies of new inside
\* the word are not spelled out as tokens.
Interleaved(tok) == IF tok \in SingleChars THEN tok ELSE "~" \o tok

\* str.replace(old, new): every non-overlapping occurrence, left to right;
\* an empty old matches before every character and at the end.
RECURSIVE Replace(_, _, _)
Replace(s, old, new) ==
    IF old = << >>
    THEN IF s = << >> THEN new
         ELSE new \o <<Interleaved(s[1])>> \o Replace(Tail(s), old, new)
    ELSE LET i == Find(s, old)
         IN  IF i < 0 THEN s
             ELSE Slice(s, 0, i) \o new \o Replace(Slice(s, i + Len(old), Len(s)), old, new)

Fence == <<BT, BT, BT>>

\* A sanitizer that cuts at the first fence after the opening line, not the last.
clean_terraform_file_first_closing(content) ==
    IF StartsWith(content, Fence)
    THEN LET first_newline == Find(content, <<NL>>)
         IN  IF first_newline > 0
             THEN LET closing_backticks == FindFrom(content, Fence, first_newline + 1)
                  IN  IF closing_backticks > first_newline
                      THEN Strip(Slice(content, first_newline + 1, closing_backticks))
                      ELSE Strip(Slice(content, first_newline + 1, Len(content)))
             ELSE content
    ELSE content

\* clean_terraform_file: the content written back to the file (and returned).
clean_terraform_file(content) ==
    IF StartsWith(content, Fence)
    THEN LET first_newline == Find(content, <<NL>>)
         IN  IF first_newline > 0
             THEN LET closing_backticks == RFind(content, Fence)
                  IN  IF closing_backticks > first_newline
                      THEN Strip(Slice(content, first_newline + 1, closing_backticks))
                      ELSE Strip(Slice(content, first_newline + 1, Len(content)))
             ELSE content
    ELSE content

\* re.findall of the double quotes not preceded by a backslash.
UnescapedQuotes(content) ==
    Cardinality({i \in 1..Len(content) :
                    content[i] = QT /\ (i = 1 \/ content[i - 1] # BS)})

ErrBraces == "Unbalanced braces"
ErrQuotes == "Unbalanced double quotes"
ErrProvider == "No provider block found"

\* A checker that returns as soon as one check has failed.
basic_syntax_check_first_only(content) ==
    IF Count(content, "{") # Count(content, "}") THEN <<ErrBraces>>
    ELSE IF UnescapedQuotes(content) % 2 # 0 THEN <<ErrQuotes>>
    ELSE IF ~InText(content, "provider") THEN <<ErrProvider>>
    ELSE << >>

\* basic_syntax_check: the list of diagnostics, in the order they are appended.
basic_syntax_check(content) ==
    (IF Count(content, "{") # Count(content, "}") THEN <<ErrBraces>> ELSE << >>)
    \o (IF UnescapedQuotes(content) % 2 # 0 THEN <<ErrQuotes>> ELSE << >>)
    \o (IF ~InText(content, "provider") THEN <<ErrProvider>> ELSE << >>)


ProviderAws == <<"provider", SP, QT, "aws", QT>>

RegionLine == <<NL, SP, SP, "region", SP, "=", SP, QT, "us-east-1", QT, NL>>

\* content.split('provider "aws"')[1].split('}')[0]
ProviderBlock(content) ==
    LET i     == Find(content, ProviderAws)
        rest  == Slice(content, i + Len(ProviderAws), Len(content))
        j     == Find(rest, ProviderAws)
        piece == IF j < 0 THEN rest ELSE Slice(rest, 0, j)
        k     == Find(piece, <<"}">>)
    IN  IF k < 0 THEN piece ELSE Slice(piece, 0, k)

VersionsNoProvider ==
    <<NL, "terraform", SP, "{", NL,
      "required_providers", SP, "{", NL,
      "aws", SP, "=", SP, "{", NL,
      "source", SP, "=", SP, QT, "hashicorp/aws", QT, NL,
      "version", SP, "=", SP, QT, "~> 5.0", QT, NL,
      "}", NL, "}", NL,
      "required_version", SP, "=", SP, QT, ">= 1.2.0", QT, NL,
      "}", NL>>

VersionsWithProvider ==
    VersionsNoProvider \o
    <<NL, "#", SP, "comment", NL,
      "provider", SP, QT, "aws", QT, SP, "{", NL,
      SP, SP, "region", SP, "=", SP, QT, "us-east-1", QT, NL,
      "}", NL>>

\* A synthesizer that emits the standalone provider block whatever main.tf holds.
create_provider_config_always_emits(content) ==
    [main |-> content, versions |-> VersionsWithProvider]

\* create_provider_config on a sandbox whose main.tf holds content: the main.tf
\* it leaves and the versions.tf it writes.
create_provider_config(content) ==
    LET provider_exists == Contains(content, ProviderAws)
        provider_block  == ProviderBlock(content)
        new_provider_block == RStrip(provider_block) \o RegionLine
    IN  [main |-> IF provider_exists /\ ~InText(provider_block, "region")
                  THEN Replace(content, provider_block, new_provider_block)
                  ELSE content,
         versions |-> IF provider_exists THEN VersionsNoProvider
                      ELSE VersionsWithProvider]

\* create_backend_config: backend.tf for the request.
create_backend_config(request_id) ==
    <<NL, "terraform", SP, "{", NL,
      "backend", SP, QT, "s3", QT, SP, "{", NL,
      "key", SP, "=", SP, QT, "terraform_state", ToString(request_id), QT, NL,
      "region", SP, "=", SP, QT, "us-east-1", QT, NL,
      "}", NL, "}", NL>>

\* ------------------------------------------------------------------ inputs

\* The sources the text-generation service returns in this model.
SrcPlain ==
    <<"provider", SP, QT, "aws", QT, SP, "{", NL, "region", SP, "=", SP,
      QT, "us-west-2", QT, NL, "}", NL,
      "resource", SP, "{", "}">>

SrcFenced ==
    <<BT, BT, BT, "hcl", NL,
      "provider", SP, QT, "aws", QT, SP, "{", "}", NL,
      "resource", SP, "{", "}", NL,
      BT, BT, BT>>

SrcNoProvider == <<"resource", SP, "{", "}">>

SrcUnbalanced == <<"provider", SP, QT, "aws", QT, SP, "{", SP, "resource", SP, "{", "}">>

SrcOddQuotes == <<"provider", SP, QT, "aws", SP, "{", "}">>

Sources == {SrcPlain, SrcFenced, SrcNoProvider, SrcUnbalanced, SrcOddQuotes}


\* ------------------------------------------------------------------ state

VARIABLES
    binEnv,        \* where the tool binary is: "layer" (TERRAFORM_LAYER), "walk" (elsewhere under /opt), "missing"
    tmp_terraform, \* /tmp/terraform: "none", or the place the staged copy came from
    s3,            \* the artifact store: a function from the keys present to their content
    sns,           \* the messages the notification channel has accepted
    nextId,        \* the next request identifier uuid4 mints
    stage,         \* per request identifier, the pipeline's state
    handoff,       \* per request identifier, the last handoff record a stage returned
    validated,     \* per request identifier, what Validate's syntax check found: "no", "empty", "diagnostics"
    fn,            \* the handler running: "idle", "convert", "validate", "apply"
    pc,            \* its position
    event,         \* its event
    request_id,    \* its request_id (0: none)
    temp_dir,      \* TRUE iff its TemporaryDirectory exists
    files,         \* the files of temp_dir: a function from names to content
    success,       \* the last run_terraform_command's success flag
    output,        \* the last run_terraform_command's output
    cmds,          \* the subprocesses spawned by this invocation, in order
    e,             \* the exception caught by the handler's except clause
    publishes,     \* the sns_client.publish calls of this invocation, in order
    result         \* how the invocation ended

globals == <<binEnv, tmp_terraform, s3, sns, nextId, stage, handoff, validated>>
locals  == <<fn, pc, event, request_id, temp_dir, files, success, output, cmds, e, publishes, result>>
vars    == <<globals, locals>>

Ids == 1..MaxRequests

NoRecord  == [status |-> "NONE"]
NoError   == [kind |-> "none", detail |-> << >>]
NoResult  == [type |-> "none"]
NoFiles   == [f \in {} |-> << >>]

\* The artifact paths.
CodeKey(id)       == <<"terraform_code", id, "main.tf">>
\* A validation result stored under the key of the source it validates.
ValidationKey_OfSource(id) == CodeKey(id)

ValidationKey(id) == <<"terraform_validation", id, "validation_result.json">>
PlanKey(id)       == <<"terraform_plans", id, "tfplan">>
ApplyLogKey(id)   == <<"terraform_output", id, "apply_output.txt">>
OutputsKey(id)    == <<"terraform_output", id, "outputs.json">>

InStore(key) == key \in DOMAIN s3

\* s3_client.put_object / upload_file: last write wins.
Put(store, key, body) ==
    [k \in DOMAIN store \cup {key} |-> IF k = key THEN body ELSE store[k]]

\* Writing a file of the sandbox.
WriteFile(fs, name, body) ==
    [k \in DOMAIN fs \cup {name} |-> IF k = name THEN body ELSE fs[k]]

Error(kind, detail) == [kind |-> kind, detail |-> detail]

Init ==
    /\ binEnv \in {"layer", "walk", "missing"}
    /\ tmp_terraform = "none"
    /\ s3 = [k \in {} |-> << >>]
    /\ sns = {}
    /\ nextId = 1
    /\ stage = [i \in Ids |-> "NotStarted"]
    /\ handoff = [i \in Ids |-> NoRecord]
    /\ validated = [i \in Ids |-> "no"]
    /\ fn = "idle"
    /\ pc = "idle"
    /\ event = NoRecord
    /\ request_id = 0
    /\ temp_dir = FALSE
    /\ files = NoFiles
    /\ success = FALSE
    /\ output = ""
    /\ cmds = << >>
    /\ e = NoError
    /\ publishes = << >>
    /\ result = NoResult

\* A sandbox that is created with mkdtemp and never removed.
TemporaryDirectory_kept == TRUE

\* Leaving the "with tempfile.TemporaryDirectory()" block, by return or by exception:
\* whether the directory still exists afterwards.
TemporaryDirectory_exit == FALSE

\* An exception raised inside the try block of a handler: the with block (if
\* entered) is left and control passes to the except clause.
Throw(err) ==
    /\ e' = err
    /\ pc' = "except"
    /\ temp_dir' = (temp_dir /\ TemporaryDirectory_exit)
    /\ files' = IF temp_dir /\ TemporaryDirectory_exit THEN files ELSE NoFiles


\* sns_client.publish in an except clause: the publish may itself raise, and then
\* that exception leaves the handler ("raise e" is not reached).
ExceptPublish(handler, msg) ==
    /\ fn = handler
    /\ pc = "except"
    /\ \E ok \in BOOLEAN :
         /\ publishes' = Append(publishes, [msg |-> msg, ok |-> ok])
         /\ IF ok
            THEN /\ sns' = sns \cup {msg}
                 /\ pc' = "raise"
                 /\ result' = result
            ELSE /\ sns' = sns
                 /\ pc' = "done"
                 /\ result' = [type |-> "raise", error |-> Error("SNSError", << >>)]
    /\ UNCHANGED <<binEnv, tmp_terraform, s3, nextId, stage, handoff, validated>>
    /\ UNCHANGED <<fn, event, request_id, temp_dir, files, success, output, cmds, e>>

\* "raise e" at the end of an except clause.
Reraise(handler) ==
    /\ fn = handler
    /\ pc = "raise"
    /\ result' = [type |-> "raise", error |-> e]
    /\ pc' = "done"
    /\ UNCHANGED globals
    /\ UNCHANGED <<fn, event, request_id, temp_dir, files, success, output, cmds, e, publishes>>

\* ------------------------------------------------------------------ Convert

\* request_id = str(uuid.uuid4())
Convert_Start ==
    /\ fn = "convert"
    /\ pc = "start"
    /\ request_id' = nextId
    /\ nextId' = nextId + 1
    /\ stage' = [stage EXCEPT ![nextId] = "Converting"]
    /\ pc' = "invoke_model"
    /\ UNCHANGED <<binEnv, tmp_terraform, s3, sns, handoff, validated>>
    /\ UNCHANGED <<fn, event, temp_dir, files, success, output, cmds, e, publishes, result>>

\* bedrock_runtime.invoke_model and the parse of its response: terraform_code is
\* kept in files["terraform_code"] until it is stored.
Convert_InvokeModel ==
    /\ fn = "convert"
    /\ pc = "invoke_model"
    /\ \/ /\ \E terraform_code \in Sources :
               files' = WriteFile(files, "terraform_code", terraform_code)
          /\ pc' = "put_object"
          /\ UNCHANGED <<e, temp_dir>>
       \/ Throw(Error("BedrockError", << >>))
    /\ UNCHANGED globals
    /\ UNCHANGED <<fn, event, request_id, success, output, cmds, publishes, result>>

\* s3_client.put_object of the generated source, then the return of the record.
Convert_PutObject ==
    /\ fn = "convert"
    /\ pc = "put_object"
    /\ \/ /\ s3' = Put(s3, CodeKey(request_id), files["terraform_code"])
          /\ result' = [type |-> "return",
                        record |-> [requestId |-> request_id,
                                    s3Key |-> CodeKey(request_id),
                                    status |-> "SUCCESS",
                                    message |-> "Successfully converted natural language to Terraform code"]]
          /\ pc' = "done"
          /\ files' = NoFiles
          /\ UNCHANGED <<e, temp_dir>>
       \/ /\ Throw(Error("S3Error", << >>))
          /\ UNCHANGED <<s3, result>>
    /\ UNCHANGED <<binEnv, tmp_terraform, sns, nextId, stage, handoff, validated>>
    /\ UNCHANGED <<fn, event, request_id, success, output, cmds, publishes>>

\* The requestId field meaning "the message does not mention a request".
NoRequestId == 0 - 1

Convert_Except ==
    ExceptPublish("convert",
                  [subject |-> "Error in NLP to Terraform Conversion",
                   requestId |-> NoRequestId,
                   error |-> e])

Convert_Raise == Reraise("convert")


\* ------------------------------------------------------------------ Validate

\* Entering the with block and s3_client.download_file(s3_bucket, s3_key, main.tf).
Validate_Download ==
    /\ fn = "validate"
    /\ pc = "start"
    /\ request_id' = event.requestId
    /\ \/ /\ InStore(event.s3Key)
          /\ temp_dir' = TRUE
          /\ files' = WriteFile(NoFiles, "main.tf", s3[event.s3Key])
          /\ pc' = "check"
          /\ e' = e
       \/ /\ e' = Error("S3Error", << >>)
          /\ pc' = "except"
          /\ temp_dir' = TemporaryDirectory_exit
          /\ files' = NoFiles
    /\ UNCHANGED globals
    /\ UNCHANGED <<fn, event, success, output, cmds, publishes, result>>

\* A Validate that stores its result whatever the syntax check found.
Validate_NeverRejects(syntax_errors) == FALSE

\* A Validate that raises only when more than one check failed.
Validate_RejectsSeveral(syntax_errors) == Len(syntax_errors) > 1

\* "if syntax_errors: raise Exception(error_message)"
Validate_Rejects(syntax_errors) == syntax_errors # << >>

\* clean_terraform_file, basic_syntax_check and the raise on diagnostics.
Validate_Check ==
    /\ fn = "validate"
    /\ pc = "check"
    /\ LET cleaned       == clean_terraform_file(files["main.tf"])
           syntax_errors == basic_syntax_check(cleaned)
       IN  /\ validated' = [validated EXCEPT ![request_id] =
                               IF syntax_errors = << >> THEN "empty" ELSE "diagnostics"]
           /\ IF Validate_Rejects(syntax_errors)
              THEN Throw(Error("ValidationFailed", syntax_errors))
              ELSE /\ files' = WriteFile(files, "main.tf", cleaned)
                   /\ pc' = "put_object"
                   /\ UNCHANGED <<e, temp_dir>>
    /\ UNCHANGED <<binEnv, tmp_terraform, s3, sns, nextId, stage, handoff>>
    /\ UNCHANGED <<fn, event, request_id, success, output, cmds, publishes, result>>

ValidationResult == <<"syntax_check", "PASSED", "errors", "status", "SUCCESS">>

\* validation_result: the object built from the diagnostics, as json.dumps stores it.
validation_result(syntax_errors) ==
    <<"syntax_check", IF syntax_errors = << >> THEN "PASSED" ELSE "FAILED", "errors">>
    \o syntax_errors
    \o <<"status", IF syntax_errors = << >> THEN "SUCCESS" ELSE "FAILED">>

\* s3_client.put_object of the validation result, then the return of the record.
Validate_PutObject ==
    /\ fn = "validate"
    /\ pc = "put_object"
    /\ \/ /\ s3' = Put(s3, ValidationKey(request_id),
                      validation_result(basic_syntax_check(files["main.tf"])))
          /\ result' = [type |-> "return",
                        record |-> [requestId |-> request_id,
                                    s3TerraformKey |-> event.s3Key,
                                    s3ValidationKey |-> ValidationKey(request_id),
                                    status |-> "SUCCESS",
                                    message |-> "Successfully validated Terraform code"]]
          /\ pc' = "done"
          /\ temp_dir' = TemporaryDirectory_exit
          /\ files' = IF TemporaryDirectory_exit THEN files ELSE NoFiles
          /\ e' = e
       \/ /\ Throw(Error("S3Error", << >>))
          /\ UNCHANGED <<s3, result>>
    /\ UNCHANGED <<binEnv, tmp_terraform, sns, nextId, stage, handoff, validated>>
    /\ UNCHANGED <<fn, event, request_id, success, output, cmds, publishes>>

Validate_Except ==
    ExceptPublish("validate",
                  [subject |-> "Error in Terraform Validation",
                   requestId |-> event.requestId,
                   error |-> e])

Validate_Raise == Reraise("validate")


\* ------------------------------------------------------------------ Apply

\* How a spawned subprocess may end: exit 0, exit non-zero, no end within the
\* communicate timeout, or an exception of Popen / communicate / decode.
Outcomes == {"ok", "nonzero", "timeout", "oserror"}

TimeoutMsg == "Command timed out after 4 minutes"

\* A run_terraform_command without the TimeoutExpired clause: the timeout falls
\* into the generic except clause, which neither kills nor names the timeout.
run_terraform_command_generic(command, outcome) ==
    [success |-> outcome = "ok",
     output  |-> CASE outcome = "ok"      -> "stdout"
                   [] outcome = "nonzero" -> "stderr"
                   [] OTHER               -> "str(e)",
     killed  |-> FALSE]

\* run_terraform_command from the Popen on: (success, output), and whether
\* process.kill() was called.
run_terraform_command(command, outcome) ==
    [success |-> outcome = "ok",
     output  |-> CASE outcome = "ok"      -> "stdout"
                   [] outcome = "nonzero" -> "stderr"
                   [] outcome = "timeout" -> TimeoutMsg
                   [] OTHER               -> "str(e)",
     killed  |-> outcome = "timeout"]

\* A lookup that takes the binary to be present without testing for it.
BinaryAssumedPresent == TRUE

\* run_terraform_command up to the Popen: the binary is resolved (TERRAFORM_LAYER,
\* else the first match of os.walk('/opt')) and copied to /tmp/terraform.
BinaryResolved == binEnv # "missing"

\* A run that executes the binary where it was found and stages no copy.
Spawn_InPlace(command, outcome) ==
    LET r == run_terraform_command(command, outcome)
    IN  /\ tmp_terraform' = tmp_terraform
        /\ cmds' = Append(cmds, [command |-> command, outcome |-> outcome, killed |-> r.killed])
        /\ success' = r.success
        /\ output' = r.output

\* One run_terraform_command(command) whose binary is resolved: the staged copy,
\* the subprocess and the (success, output) the handler receives.
Spawn(command, outcome) ==
    LET r == run_terraform_command(command, outcome)
    IN  /\ tmp_terraform' = binEnv
        /\ cmds' = Append(cmds, [command |-> command, outcome |-> outcome, killed |-> r.killed])
        /\ success' = r.success
        /\ output' = r.output

\* FileNotFoundError raised by run_terraform_command before anything is spawned.
BinaryNotFound ==
    /\ ~BinaryResolved
    /\ Throw(Error("FileNotFoundError", << >>))
    /\ UNCHANGED <<tmp_terraform, cmds, success, output>>

\* Entering the with block, setup_aws_credentials and
\* s3_client.download_file(s3_bucket, s3_terraform_key, main.tf).
Apply_Download ==
    /\ fn = "apply"
    /\ pc = "start"
    /\ request_id' = event.requestId
    /\ \/ /\ InStore(event.s3TerraformKey)
          /\ temp_dir' = TRUE
          /\ files' = WriteFile(WriteFile(NoFiles, ".aws/config", <<"region", "us-east-1">>),
                                "main.tf", s3[event.s3TerraformKey])
          /\ pc' = "configure"
          /\ e' = e
       \/ /\ e' = Error("S3Error", << >>)
          /\ pc' = "except"
          /\ temp_dir' = TemporaryDirectory_exit
          /\ files' = NoFiles
    /\ UNCHANGED globals
    /\ UNCHANGED <<fn, event, success, output, cmds, publishes, result>>

\* clean_terraform_file, create_backend_config, create_provider_config and the
\* terraform.tfvars file.
Apply_Configure ==
    /\ fn = "apply"
    /\ pc = "configure"
    /\ LET cleaned == clean_terraform_file(files["main.tf"])
           cfg     == create_provider_config(cleaned)
           f1      == WriteFile(files, "main.tf", cfg.main)
           f2      == WriteFile(f1, "backend.tf", create_backend_config(request_id))
           f3      == WriteFile(f2, "versions.tf", cfg.versions)
       IN  files' = WriteFile(f3, "terraform.tfvars", <<"aws_region", "=", QT, "us-east-1", QT, NL>>)
    /\ pc' = "init"
    /\ UNCHANGED globals
    /\ UNCHANGED <<fn, event, request_id, temp_dir, success, output, cmds, e, publishes, result>>

\* A handler that goes on to plan whatever init returned.
InitNeverAborts(ok) == FALSE

\* "if not success: raise Exception(Terraform init failed)"
InitAborts(ok) == ~ok

\* run_terraform_command(['init']) and the check of its result.
Apply_Init ==
    /\ fn = "apply"
    /\ pc = "init"
    /\ \/ BinaryNotFound
       \/ /\ BinaryResolved
          /\ \E outcome \in Outcomes :
               /\ Spawn("init", outcome)
               /\ IF InitAborts(outcome = "ok")
                  THEN Throw(Error("InitFailed", <<run_terraform_command("init", outcome).output>>))
                  ELSE /\ pc' = "plan"
                       /\ UNCHANGED <<e, temp_dir, files>>
    /\ UNCHANGED <<binEnv, s3, sns, nextId, stage, handoff, validated>>
    /\ UNCHANGED <<fn, event, request_id, publishes, result>>

\* "if not success: raise Exception(Terraform plan failed)"
PlanAborts(ok) == ~ok

\* run_terraform_command(['plan', '-out=tfplan']) and the check of its result; a
\* plan that exits 0 has written tfplan into the sandbox.
Apply_Plan ==
    /\ fn = "apply"
    /\ pc = "plan"
    /\ \/ BinaryNotFound
       \/ /\ BinaryResolved
          /\ \E outcome \in Outcomes :
               /\ Spawn("plan", outcome)
               /\ IF PlanAborts(outcome = "ok")
                  THEN Throw(Error("PlanFailed", <<run_terraform_command("plan", outcome).output>>))
                  ELSE /\ pc' = "upload_plan"
                       /\ files' = IF outcome = "ok"
                                   THEN WriteFile(files, "tfplan", <<"plan">>) ELSE files
                       /\ UNCHANGED <<e, temp_dir>>
    /\ UNCHANGED <<binEnv, s3, sns, nextId, stage, handoff, validated>>
    /\ UNCHANGED <<fn, event, request_id, publishes, result>>

\* A handler that goes from plan to apply without uploading the plan file.
Apply_UploadPlanSkipped ==
    /\ fn = "apply"
    /\ pc = "upload_plan"
    /\ pc' = "apply"
    /\ UNCHANGED globals
    /\ UNCHANGED <<fn, event, request_id, temp_dir, files, success, output, cmds, e, publishes, result>>

\* s3_client.upload_file(plan_file, s3_bucket, terraform_plans/{request_id}/tfplan)
Apply_UploadPlan ==
    /\ fn = "apply"
    /\ pc = "upload_plan"
    /\ \/ /\ "tfplan" \in DOMAIN files
          /\ s3' = Put(s3, PlanKey(request_id), files["tfplan"])
          /\ pc' = "apply"
          /\ UNCHANGED <<e, temp_dir, files>>
       \/ /\ Throw(Error("S3Error", << >>))
          /\ s3' = s3
    /\ UNCHANGED <<binEnv, tmp_terraform, sns, nextId, stage, handoff, validated>>
    /\ UNCHANGED <<fn, event, request_id, success, output, cmds, publishes, result>>

\* run_terraform_command(['apply', '-auto-approve', 'tfplan'])
Apply_Apply ==
    /\ fn = "apply"
    /\ pc = "apply"
    /\ \/ BinaryNotFound
       \/ /\ BinaryResolved
          /\ \E outcome \in Outcomes : Spawn("apply", outcome)
          /\ pc' = "put_apply_output"
          /\ UNCHANGED <<e, temp_dir, files>>
    /\ UNCHANGED <<binEnv, s3, sns, nextId, stage, handoff, validated>>
    /\ UNCHANGED <<fn, event, request_id, publishes, result>>

\* A handler that stores the apply output only when apply succeeded.
Apply_PutApplyOutputOnSuccess ==
    /\ fn = "apply"
    /\ pc = "put_apply_output"
    /\ \/ /\ s3' = IF success THEN Put(s3, ApplyLogKey(request_id), <<output>>) ELSE s3
          /\ pc' = "check_apply"
          /\ UNCHANGED <<e, temp_dir, files>>
       \/ /\ Throw(Error("S3Error", << >>))
          /\ s3' = s3
    /\ UNCHANGED <<binEnv, tmp_terraform, sns, nextId, stage, handoff, validated>>
    /\ UNCHANGED <<fn, event, request_id, success, output, cmds, publishes, result>>

\* s3_client.put_object(terraform_output/{request_id}/apply_output.txt, Body=output)
Apply_PutApplyOutput ==
    /\ fn = "apply"
    /\ pc = "put_apply_output"
    /\ \/ /\ s3' = Put(s3, ApplyLogKey(request_id), <<output>>)
          /\ pc' = "check_apply"
          /\ UNCHANGED <<e, temp_dir, files>>
       \/ /\ Throw(Error("S3Error", << >>))
          /\ s3' = s3
    /\ UNCHANGED <<binEnv, tmp_terraform, sns, nextId, stage, handoff, validated>>
    /\ UNCHANGED <<fn, event, request_id, success, output, cmds, publishes, result>>

\* "if not success: raise Exception(Terraform apply failed)"
ApplyAborts(ok) == ~ok

Apply_CheckApply ==
    /\ fn = "apply"
    /\ pc = "check_apply"
    /\ IF ApplyAborts(success)
       THEN Throw(Error("ApplyFailed", <<output>>))
       ELSE /\ pc' = "output"
            /\ UNCHANGED <<e, temp_dir, files>>
    /\ UNCHANGED globals
    /\ UNCHANGED <<fn, event, request_id, success, output, cmds, publishes, result>>


\* "if success: put_object(outputs.json)"
OutputStored(ok) == ok

\* run_terraform_command(['output', '-json'])
Apply_Output ==
    /\ fn = "apply"
    /\ pc = "output"
    /\ \/ BinaryNotFound
       \/ /\ BinaryResolved
          /\ \E outcome \in Outcomes :
               /\ Spawn("output", outcome)
               /\ pc' = IF OutputStored(outcome = "ok") THEN "put_outputs" ELSE "notify"
          /\ UNCHANGED <<e, temp_dir, files>>
    /\ UNCHANGED <<binEnv, s3, sns, nextId, stage, handoff, validated>>
    /\ UNCHANGED <<fn, event, request_id, publishes, result>>

\* s3_client.put_object(terraform_output/{request_id}/outputs.json, Body=tf_output)
Apply_PutOutputs ==
    /\ fn = "apply"
    /\ pc = "put_outputs"
    /\ \/ /\ s3' = Put(s3, OutputsKey(request_id), <<output>>)
          /\ pc' = "notify"
          /\ UNCHANGED <<e, temp_dir, files>>
       \/ /\ Throw(Error("S3Error", << >>))
          /\ s3' = s3
    /\ UNCHANGED <<binEnv, tmp_terraform, sns, nextId, stage, handoff, validated>>
    /\ UNCHANGED <<fn, event, request_id, success, output, cmds, publishes, result>>

CompletedMsg(id) ==
    [subject |-> "Terraform Deployment Completed", requestId |-> id, error |-> NoError]

\* sns_client.publish of the completion message, inside the try block, then the
\* return of the final record.
Apply_Notify ==
    /\ fn = "apply"
    /\ pc = "notify"
    /\ \E ok \in BOOLEAN :
         /\ publishes' = Append(publishes, [msg |-> CompletedMsg(request_id), ok |-> ok])
         /\ IF ok
            THEN /\ sns' = sns \cup {CompletedMsg(request_id)}
                 /\ result' = [type |-> "return",
                               record |-> [requestId |-> request_id,
                                           s3TerraformKey |-> event.s3TerraformKey,
                                           s3OutputsKey |-> OutputsKey(request_id),
                                           s3ApplyLogsKey |-> ApplyLogKey(request_id),
                                           status |-> "SUCCESS",
                                           message |-> "Successfully deployed infrastructure using Terraform"]]
                 /\ pc' = "done"
                 /\ temp_dir' = TemporaryDirectory_exit
                 /\ files' = IF TemporaryDirectory_exit THEN files ELSE NoFiles
                 /\ e' = e
            ELSE /\ Throw(Error("SNSError", << >>))
                 /\ UNCHANGED <<sns, result>>
    /\ UNCHANGED <<binEnv, tmp_terraform, s3, nextId, stage, handoff, validated>>
    /\ UNCHANGED <<fn, event, request_id, success, output, cmds>>

Apply_Except ==
    ExceptPublish("apply",
                  [subject |-> "Error in Terraform Apply",
                   requestId |-> event.requestId,
                   error |-> e])

Apply_Raise == Reraise("apply")

\* ------------------------------------------------------------------ the invoker

\* The locals of a handler before its first statement.
Enter(handler, ev) ==
    /\ fn = "idle"
    /\ fn' = handler
    /\ pc' = "start"
    /\ event' = ev
    /\ UNCHANGED <<request_id, temp_dir, files, success, output, cmds, e, publishes, result>>

\* Convert is invoked with a natural-language request.
InvokeConvert ==
    /\ nextId <= MaxRequests
    /\ Enter("convert", [input |-> "create an S3 bucket named demo"])
    /\ UNCHANGED globals

\* Validate is invoked with the record Convert returned.
InvokeValidate(id) ==
    /\ stage[id] = "Converting"
    /\ "s3Key" \in DOMAIN handoff[id]
    /\ Enter("validate", handoff[id])
    /\ stage' = [stage EXCEPT ![id] = "Validating"]
    /\ UNCHANGED <<binEnv, tmp_terraform, s3, sns, nextId, handoff, validated>>

\* Apply is invoked with the record Validate returned.
InvokeApply(id) ==
    /\ stage[id] = "Validating"
    /\ "s3ValidationKey" \in DOMAIN handoff[id]
    /\ Enter("apply", handoff[id])
    /\ stage' = [stage EXCEPT ![id] = "Applying"]
    /\ UNCHANGED <<binEnv, tmp_terraform, s3, sns, nextId, handoff, validated>>

\* The invocation ends: a returned record is handed on, a raised error fails the
\* pipeline; the handler's frame is gone.
Complete ==
    /\ pc = "done"
    /\ stage' = [stage EXCEPT ![request_id] =
                    IF result.type = "raise" THEN "Failed"
                    ELSE IF fn = "apply" THEN "Succeeded" ELSE @]
    /\ handoff' = IF result.type = "return"
                  THEN [handoff EXCEPT ![request_id] = result.record]
                  ELSE handoff
    /\ fn' = "idle"
    /\ pc' = "idle"
    /\ event' = NoRecord
    /\ request_id' = 0
    /\ temp_dir' = temp_dir
    /\ files' = files
    /\ success' = FALSE
    /\ output' = ""
    /\ cmds' = << >>
    /\ e' = NoError
    /\ publishes' = << >>
    /\ result' = NoResult
    /\ UNCHANGED <<binEnv, tmp_terraform, s3, sns, nextId, validated>>

Next ==
    \/ InvokeConvert
    \/ \E id \in Ids : InvokeValidate(id)
    \/ \E id \in Ids : InvokeApply(id)
    \/ Complete
    \/ Convert_Start
    \/ Convert_InvokeModel
    \/ Convert_PutObject
    \/ Convert_Except
    \/ Convert_Raise
    \/ Validate_Download
    \/ Validate_Check
    \/ Validate_PutObject
    \/ Validate_Except
    \/ Validate_Raise
    \/ Apply_Download
    \/ Apply_Configure
    \/ Apply_Init
    \/ Apply_Plan
    \/ Apply_UploadPlan
    \/ Apply_Apply
    \/ Apply_PutApplyOutput
    \/ Apply_CheckApply
    \/ Apply_Output
    \/ Apply_PutOutputs
    \/ Apply_Notify
    \/ Apply_Except
    \/ Apply_Raise

Spec == Init /\ [][Next]_vars


\* ------------------------------------------------------------------ claims

Order == <<"init", "plan", "apply", "output">>

Ran(command) == \E i \in DOMAIN cmds : cmds[i].command = command

\* C1: within one Apply invocation the subprocesses spawned are a prefix of
\* init, plan, apply, output (fixed order, each at most once), and only the last
\* one spawned may have failed: nothing is run after init, plan or apply fails.
C1_FixedOrderFirstFailureAborts ==
    /\ Len(cmds) <= Len(Order)
    /\ \A i \in DOMAIN cmds : cmds[i].command = Order[i]
    /\ \A i \in DOMAIN cmds : i < Len(cmds) => cmds[i].outcome = "ok"

\* C1 witness: an Apply invocation has ended after plan failed, with init and
\* plan the only subprocesses run.
C1_Witness ==
    /\ fn = "apply"
    /\ pc = "done"
    /\ Len(cmds) = 2
    /\ cmds[2].command = "plan"
    /\ cmds[2].outcome = "nonzero"
    /\ result.type = "raise"

\* C2: in an Apply invocation, from the moment the apply subcommand has been
\* started until the invocation ends, the plan file written by plan is in the
\* artifact store at terraform_plans/{id}/tfplan, whatever apply's outcome.
C2_PlanStoredBeforeApply ==
    (fn = "apply" /\ (Ran("apply") \/ pc = "apply")) =>
        /\ InStore(PlanKey(request_id))
        /\ s3[PlanKey(request_id)] = <<"plan">>

\* C2 witness: the invocation has ended in failure after apply timed out, and
\* the plan object is in the store.
C2_Witness ==
    /\ fn = "apply"
    /\ pc = "done"
    /\ Len(cmds) = 3
    /\ cmds[3].outcome = "timeout"
    /\ result.type = "raise"
    /\ InStore(PlanKey(request_id))

\* C3: in an Apply invocation, whenever the stage raises the Apply-failed error
\* or continues past the check of apply's result, the output captured from
\* apply (for success, non-zero exit and timeout alike) is in the store at
\* terraform_output/{id}/apply_output.txt.
C3_ApplyLogStoredBeforeRaise ==
    fn = "apply" =>
        /\ (e.kind = "ApplyFailed" =>
                /\ InStore(ApplyLogKey(request_id))
                /\ s3[ApplyLogKey(request_id)] = e.detail)
        /\ ((result.type = "raise" /\ result.error.kind = "ApplyFailed") =>
                InStore(ApplyLogKey(request_id)))
        /\ ((pc \in {"output", "put_outputs", "notify"} \/ Ran("output")) =>
                InStore(ApplyLogKey(request_id)))

\* C3 witness: the Apply-failed error of a timed-out apply has been propagated
\* and the log object holds the timeout message.
C3_Witness ==
    /\ fn = "apply"
    /\ pc = "done"
    /\ result.type = "raise"
    /\ result.error = Error("ApplyFailed", <<TimeoutMsg>>)
    /\ s3[ApplyLogKey(request_id)] = <<TimeoutMsg>>


\* The publish calls made from an except clause, in order.
FailurePublishes == SelectSeq(publishes, LAMBDA p : p.msg.error # NoError)

\* C4: in every stage, an error raised inside the stage leads to one and only
\* one failure-notification publish and then to that error being propagated to
\* the invoker, with no handoff record returned.
C4_OnePublishThenPropagate ==
    (pc = "done" /\ e # NoError) =>
        /\ Len(FailurePublishes) = 1
        /\ result = [type |-> "raise", error |-> e]

\* C5: when a stage fails with error E and the failure-notification publish
\* itself fails, the invoker still observes E, and the publish was attempted
\* exactly once.
C5_NotifyFailureDoesNotMask ==
    (/\ pc = "done"
     /\ e # NoError
     /\ FailurePublishes # << >>
     /\ ~FailurePublishes[Len(FailurePublishes)].ok) =>
        /\ Len(FailurePublishes) = 1
        /\ result.type = "raise"
        /\ result.error = e

KeyFields == {"s3Key", "s3TerraformKey", "s3ValidationKey", "s3OutputsKey", "s3ApplyLogsKey"}

\* C6: whenever a stage returns a SUCCESS record, every artifact location the
\* record names is an object already written to the artifact store.
C6_RecordNamesStoredObjects ==
    (pc = "done" /\ result.type = "return") =>
        \A f \in DOMAIN result.record \cap KeyFields : InStore(result.record[f])

Rank(st) ==
    CASE st = "NotStarted" -> 0
      [] st = "Converting" -> 1
      [] st = "Validating" -> 2
      [] st = "Applying"   -> 3
      [] st = "Succeeded"  -> 4
      [] OTHER             -> 5

C7_Invoked ==
    /\ fn = "apply" => validated[event.requestId] = "empty"
    /\ fn = "validate" => InStore(CodeKey(event.requestId))
    /\ (fn = "validate" /\ result.type = "return") => validated[request_id] = "empty"

C7_Forward ==
    \A id \in Ids :
        stage'[id] # stage[id] =>
            /\ stage[id] \notin {"Failed", "Succeeded"}
            /\ Rank(stage'[id]) > Rank(stage[id])

\* C7: with each stage invoked on the record the previous stage returned, Apply
\* is only ever invoked for a request whose Validate found no diagnostics,
\* Validate returns a record only when it found none, Validate is only ever
\* invoked once Convert has stored terraform_code/{id}/main.tf, and the pipeline
\* of a request only moves forward and never leaves Failed.
C7_PipelineOrdering == [](C7_Invoked) /\ [][C7_Forward]_vars

\* C7 witness: Apply is running for a request whose Validate found no
\* diagnostics in the source Convert stored.
C7_Witness ==
    /\ fn = "apply"
    /\ pc = "configure"
    /\ stage[request_id] = "Applying"
    /\ validated[request_id] = "empty"
    /\ InStore(CodeKey(request_id))

TimedOut(i) == cmds[i].outcome = "timeout"

C9_OutputFailureIsNotFatal ==
    /\ Ran("output") => cmds[3].outcome = "ok"
    /\ (fn = "apply" /\ pc = "done" /\ Len(cmds) = 4 /\ cmds[4].outcome # "ok") =>
           /\ result.type = "return"
           /\ result.record.status = "SUCCESS"
           /\ FailurePublishes = << >>

\* C10: when a Validate or Apply invocation has returned or raised, and while
\* no handler runs, the sandbox directory does not exist.
C10_SandboxRemoved ==
    pc \in {"done", "idle"} => (~temp_dir /\ files = NoFiles)

\* C10 witness: an Apply invocation that ran init, plan and apply in its
\* sandbox has ended with the notification channel's error, the sandbox gone.
C10_Witness ==
    /\ fn = "apply"
    /\ pc = "done"
    /\ Len(cmds) = 3
    /\ result = [type |-> "raise", error |-> Error("SNSError", << >>)]
    /\ ~temp_dir

StageOfSubject(subject) ==
    CASE subject = "Error in NLP to Terraform Conversion" -> "convert"
      [] subject = "Error in Terraform Validation"        -> "validate"
      [] subject = "Error in Terraform Apply"             -> "apply"
      [] OTHER                                            -> "none"

\* C12: every failure notification a stage publishes (Convert, Validate or
\* Apply) carries the request identifier of the failing invocation, names the
\* stage that failed, and carries the detail of the error that was caught.
C12_FailureNotificationContents ==
    \A i \in DOMAIN FailurePublishes :
        LET m == FailurePublishes[i].msg
        IN  /\ m.requestId = request_id
            /\ StageOfSubject(m.subject) = fn
            /\ m.error = e

\* ---------------------------------------------------------------------------
\* C13: the notification channel carries terminal-failure reports only: an
\* invocation that ends by returning its record has published nothing, and so
\* every notification that was published belongs to an invocation that ends by
\* raising.
C13_ChannelOnlyForFailures ==
    (pc = "done" /\ result.type = "return") => publishes = << >>

\* All four subcommands of this Apply invocation ran and exited 0.
AllSubcommandsSucceeded ==
    /\ Len(cmds) = 4
    /\ \A i \in 1..4 : cmds[i].outcome = "ok"

\* The plan, the apply log and the outputs of this invocation are in the store.
AllArtifactsStored ==
    /\ InStore(PlanKey(request_id))
    /\ InStore(ApplyLogKey(request_id))
    /\ InStore(OutputsKey(request_id))

\* C14: an Apply invocation in which init, plan, apply and output all succeed
\* and every artifact-store operation succeeds ends by returning a record with
\* status SUCCESS whose s3OutputsKey is terraform_output/{id}/outputs.json,
\* whatever the notification channel does.
C14_SuccessIndependentOfChannel ==
    (fn = "apply" /\ pc = "done" /\ AllSubcommandsSucceeded /\ AllArtifactsStored) =>
        /\ result.type = "return"
        /\ result.record.status = "SUCCESS"
        /\ result.record.s3OutputsKey = OutputsKey(request_id)

\* ===========================================================================
\* The text functions on their own: clean_terraform_file, basic_syntax_check
\* and create_provider_config applied to a main.tf drawn from bounded sets.

MaxChunks == 5
MaxTokens == 4
MaxSettings == 2

RECURSIVE Flatten(_)
Flatten(ss) == IF ss = << >> THEN << >> ELSE Head(ss) \o Flatten(Tail(ss))

SeqsUpTo(S, n) == UNION {[1..k -> S] : k \in 0..n}

\* Contents for clean_terraform_file: every text of at most MaxChunks pieces,
\* a piece being a fence, one backtick, a line break, a blank or a word.
FenceChunks == {Fence, <<BT>>, <<NL>>, <<SP>>, <<"code">>}

FencedTexts == {Flatten(c) : c \in SeqsUpTo(FenceChunks, MaxChunks)}

\* Contents for basic_syntax_check: every text of at most MaxTokens tokens.
CheckTokens == {"{", "}", QT, BS, "provider", "required_providers", "x"}

CheckTexts == SeqsUpTo(CheckTokens, MaxTokens)

\* Contents for create_provider_config: an optional resource block, at most one
\* aws provider block (three spellings of its header, at most MaxSettings
\* distinct settings in any order), and an optional resource block or comment.
SettingNames == {"alias", "region", "default_tags", "skip_region_validation"}

SettingText(name) ==
    CASE name = "alias"        -> <<NL, SP, SP, "alias", SP, "=", SP, QT, "west", QT>>
      [] name = "region"       -> <<NL, SP, SP, "region", SP, "=", SP, QT, "us-west-2", QT>>
      [] name = "default_tags" -> <<NL, SP, SP, "default_tags", SP, "{", "}">>
      [] OTHER                 -> <<NL, SP, SP, "skip_region_validation", SP, "=", SP, "true">>

Headers ==
    { ProviderAws \o <<SP, "{">>,
      ProviderAws \o <<"{">>,
      <<"provider", SP, SP, QT, "aws", QT, SP, "{">> }

SettingLists ==
    {q \in SeqsUpTo(SettingNames, MaxSettings) :
        \A i, j \in DOMAIN q : q[i] = q[j] => i = j}

ProviderParts ==
    { << >> } \cup
    { h \o Flatten([i \in DOMAIN q |-> SettingText(q[i])]) \o <<NL, "}">> :
        h \in Headers, q \in SettingLists }

ResourceBlock ==
    <<"resource", SP, QT, "aws_s3_bucket", QT, SP, QT, "demo", QT, SP, "{", NL, "}">>

ProviderComment == <<"#", SP, "provider", SP, QT, "aws", QT, SP, "elsewhere">>

SynthTexts ==
    { pre \o part \o post :
        pre  \in { << >>, ResourceBlock \o <<NL>> },
        part \in ProviderParts,
        post \in { << >>, <<NL>> \o ResourceBlock, <<NL>> \o ProviderComment } }

TextFunctions == {"clean_terraform_file", "basic_syntax_check", "create_provider_config"}

TextInputs(f) ==
    CASE f = "clean_terraform_file" -> FencedTexts
      [] f = "basic_syntax_check"   -> CheckTexts
      [] OTHER                      -> SynthTexts

\* A sandbox holding main.tf with the content the function is called on.
InitText ==
    /\ binEnv = "layer"
    /\ tmp_terraform = "none"
    /\ s3 = [k \in {} |-> << >>]
    /\ sns = {}
    /\ nextId = 1
    /\ stage = [i \in Ids |-> "NotStarted"]
    /\ handoff = [i \in Ids |-> NoRecord]
    /\ validated = [i \in Ids |-> "no"]
    /\ fn \in TextFunctions
    /\ pc = "call"
    /\ \E content \in TextInputs(fn) :
         /\ event = [content |-> content]
         /\ files = WriteFile(NoFiles, "main.tf", content)
    /\ request_id = 0
    /\ temp_dir = TRUE
    /\ success = FALSE
    /\ output = ""
    /\ cmds = << >>
    /\ e = NoError
    /\ publishes = << >>
    /\ result = NoResult

\* clean_terraform_file(main.tf): the file is rewritten and the content returned.
Call_clean_terraform_file ==
    /\ fn = "clean_terraform_file"
    /\ pc = "call"
    /\ LET content == clean_terraform_file(files["main.tf"])
       IN  /\ files' = WriteFile(files, "main.tf", content)
           /\ result' = [type |-> "return", value |-> content]
    /\ pc' = "returned"
    /\ UNCHANGED globals
    /\ UNCHANGED <<fn, event, request_id, temp_dir, success, output, cmds, e, publishes>>

\* basic_syntax_check(main.tf): the list of diagnostics is returned.
Call_basic_syntax_check ==
    /\ fn = "basic_syntax_check"
    /\ pc = "call"
    /\ result' = [type |-> "return", value |-> basic_syntax_check(files["main.tf"])]
    /\ pc' = "returned"
    /\ UNCHANGED globals
    /\ UNCHANGED <<fn, event, request_id, temp_dir, files, success, output, cmds, e, publishes>>

\* create_provider_config(temp_dir): main.tf is rewritten or left alone and
\* versions.tf is written.
Call_create_provider_config ==
    /\ fn = "create_provider_config"
    /\ pc = "call"
    /\ LET r == create_provider_config(files["main.tf"])
       IN  files' = WriteFile(WriteFile(files, "main.tf", r.main), "versions.tf", r.versions)
    /\ result' = [type |-> "return", value |-> << >>]
    /\ pc' = "returned"
    /\ UNCHANGED globals
    /\ UNCHANGED <<fn, event, request_id, temp_dir, success, output, cmds, e, publishes>>

NextText ==
    \/ Call_clean_terraform_file
    \/ Call_basic_syntax_check
    \/ Call_create_provider_config

TextSpec == InitText /\ [][NextText]_vars

\* ---------------------------------------------------------------------------
\* The structure of a source text, read block-aware.

Min(S) == CHOOSE i \in S : \A j \in S : i <= j
Max(S) == CHOOSE i \in S : \A j \in S : i >= j

\* The first position at or after i that holds no whitespace (Len(s) + 1 if none).
SkipWs(s, i) ==
    Min({j \in i..(Len(s) + 1) : j = Len(s) + 1 \/ s[j] \notin Whitespace})

\* The position of the opening brace of an aws provider block whose keyword is
\* at position i (the keyword, the quoted name and the brace, with any
\* whitespace between them), or 0.
BlockOpen(s, i) ==
    IF s[i] # "provider" THEN 0
    ELSE LET a == SkipWs(s, i + 1)
         IN  IF ~OccursAt(s, <<QT, "aws", QT>>, a - 1) THEN 0
             ELSE LET b == SkipWs(s, a + 3)
                  IN  IF b <= Len(s) /\ s[b] = "{" THEN b ELSE 0

AwsBlocks(s) == {BlockOpen(s, i) : i \in 1..Len(s)} \ {0}

\* Opening minus closing braces in s[a..b].
Depth(s, a, b) == Count(SubSeq(s, a, b), "{") - Count(SubSeq(s, a, b), "}")

\* The position of the brace that closes the block opened at o (Len(s) + 1 if none).
BlockClose(s, o) ==
    Min({j \in (o + 1)..(Len(s) + 1) :
            j = Len(s) + 1 \/ (s[j] = "}" /\ Depth(s, o, j) = 0)})

\* The block opened at o has a region setting of its own.
HasRegionSetting(s, o) ==
    \E j \in (o + 1)..(BlockClose(s, o) - 1) :
        /\ s[j] = "region"
        /\ Depth(s, o, j) = 1
        /\ LET k == SkipWs(s, j + 1) IN k <= Len(s) /\ s[k] = "="

NoWs(s) == SelectSeq(s, LAMBDA t : t \notin Whitespace)

RegionSetting == <<"region", "=", QT, "us-east-1", QT>>

\* The textual tests of create_provider_config agree with the structure of s:
\* the text provider "aws" occurs only as the header of a provider block, every
\* provider block is headed by that text, no provider block holds a nested
\* block, and the text region occurs in one only if it has a region setting.
TextualTestsAgree(s) ==
    LET hits == {i \in 0..Len(s) : OccursAt(s, ProviderAws, i)}
    IN  /\ \A i \in hits : BlockOpen(s, i + 1) # 0
        /\ AwsBlocks(s) = {BlockOpen(s, i + 1) : i \in hits}
        /\ \A o \in AwsBlocks(s) :
             /\ BlockClose(s, o) <= Len(s)
             /\ \A j \in (o + 1)..(BlockClose(s, o) - 1) : s[j] # "{"
             /\ (\E j \in (o + 1)..(BlockClose(s, o) - 1) : s[j] \in WordsWith("region"))
                   => HasRegionSetting(s, o)

\* After create_provider_config, main.tf and versions.tf together declare
\* exactly one aws provider block and it has a region setting: versions.tf
\* declares it when the source had none, main.tf keeps its own otherwise.
OneProviderBlockWithRegion(source) ==
    LET main     == files["main.tf"]
        versions == files["versions.tf"]
    IN  /\ Cardinality(AwsBlocks(main)) + Cardinality(AwsBlocks(versions)) = 1
        /\ \A o \in AwsBlocks(main) : HasRegionSetting(main, o)
        /\ \A o \in AwsBlocks(versions) : HasRegionSetting(versions, o)
        /\ AwsBlocks(source) = {} => AwsBlocks(main) = {}
        /\ AwsBlocks(source) # {} => AwsBlocks(versions) = {}
        /\ (\E o \in AwsBlocks(source) : HasRegionSetting(source, o)) => main = source

Synthesized == fn = "create_provider_config" /\ pc = "returned"

C16_OnlyOneRegionSettingAdded ==
    (Synthesized /\ Cardinality(AwsBlocks(event.content)) = 1) =>
        LET source == event.content
            main   == files["main.tf"]
            o      == CHOOSE b \in AwsBlocks(source) : TRUE
            last   == Min({BlockClose(source, o) - 1, Len(source)})
        IN  /\ HasRegionSetting(source, o) => main = source
            /\ main # source =>
                 \E p \in o..last :
                    NoWs(main) = NoWs(SubSeq(source, 1, p)) \o RegionSetting
                                 \o NoWs(SubSeq(source, p + 1, Len(source)))

\* ---------------------------------------------------------------------------
\* The parts of a text the sanitizer's cases speak of.

\* The positions at which a fence delimiter starts.
FenceAt(s) == {i \in 1..(Len(s) - 2) : s[i] = BT /\ s[i + 1] = BT /\ s[i + 2] = BT}

\* The positions of the line breaks.
Breaks(s) == {i \in 1..Len(s) : s[i] = NL}

BeginsWithFence(s) == 1 \in FenceAt(s)

\* s without its leading and trailing whitespace.
Trimmed(s) ==
    LET ink == {i \in 1..Len(s) : s[i] \notin Whitespace}
    IN  IF ink = {} THEN << >> ELSE SubSeq(s, Min(ink), Max(ink))

\* What follows the opening line: nothing when the text is one line.
AfterOpeningLine(s) ==
    IF Breaks(s) = {} THEN << >> ELSE SubSeq(s, Min(Breaks(s)) + 1, Len(s))

\* What lies between the end of the opening line and the last fence delimiter.
BetweenFences(s) == SubSeq(s, Min(Breaks(s)) + 1, Max(FenceAt(s)) - 1)

\* The last fence delimiter lies after the first line break.
ClosedAfterFirstBreak(s) == Breaks(s) # {} /\ Max(FenceAt(s)) > Min(Breaks(s))

\* No fence delimiter other than the opening one (one that overlaps it aside).
NoLaterFence(s) == \A i \in FenceAt(s) : i <= 3

Sanitized == fn = "clean_terraform_file" /\ pc = "returned"

\* C17 as stated: the sanitizer returns; a text that does not begin with a
\* fence comes back unchanged; one that begins with a fence and whose last
\* fence lies after the first line break comes back as the trimmed text between
\* the opening line and that fence; one that begins with a fence and has no
\* later fence comes back as the trimmed text after the opening line.
C17_SanitizerCases ==
    Sanitized =>
        LET s == event.content
            r == result.value
        IN  /\ result.type = "return"
            /\ ~BeginsWithFence(s) => r = s
            /\ (BeginsWithFence(s) /\ ClosedAfterFirstBreak(s)) => r = Trimmed(BetweenFences(s))
            /\ (BeginsWithFence(s) /\ NoLaterFence(s)) => r = Trimmed(AfterOpeningLine(s))

\* C17 amended: as stated for every text that has a line break, the trimmed
\* text after the opening line being the result whenever no fence lies after
\* the first line break; a text that begins with a fence and has no line break
\* comes back unchanged; the file holds what is returned.
C17_SanitizerCasesByLineBreak ==
    Sanitized =>
        LET s == event.content
            r == result.value
        IN  /\ result.type = "return"
            /\ files["main.tf"] = r
            /\ ~BeginsWithFence(s) => r = s
            /\ (BeginsWithFence(s) /\ Breaks(s) = {}) => r = s
            /\ (BeginsWithFence(s) /\ ClosedAfterFirstBreak(s)) => r = Trimmed(BetweenFences(s))
            /\ (BeginsWithFence(s) /\ Breaks(s) # {} /\ ~ClosedAfterFirstBreak(s)) =>
                   r = Trimmed(AfterOpeningLine(s))

\* The fenced text of the example came back as its code.
C17_Witness ==
    /\ Sanitized
    /\ event.content = Fence \o <<NL, "code", NL>> \o Fence
    /\ result.value = <<"code">>

\* ---------------------------------------------------------------------------
\* The three conditions of the syntax checker, stated on the text.

BracesBalanced(s) ==
    Cardinality({i \in 1..Len(s) : s[i] = "{"}) = Cardinality({i \in 1..Len(s) : s[i] = "}"})

\* The number of backslashes that immediately precede position i.
BackslashesBefore(s, i) ==
    Cardinality({k \in 1..(i - 1) : \A j \in k..(i - 1) : s[j] = BS})

\* The double quotes that no backslash escapes: those preceded by an even
\* number of backslashes (a backslash escaped by another escapes nothing).
QuotesNotEscaped(s) ==
    {i \in 1..Len(s) : s[i] = QT /\ BackslashesBefore(s, i) % 2 = 0}

\* The double quotes whose preceding character is not a backslash.
QuotesNotAfterBackslash(s) ==
    {i \in 1..Len(s) : s[i] = QT /\ BackslashesBefore(s, i) = 0}

\* The keyword provider occurs as a word / its letters occur in some word.
ProviderKeywordOccurs(s) == \E i \in 1..Len(s) : s[i] = "provider"
ProviderTextOccurs(s) == \E i \in 1..Len(s) : s[i] \in {"provider", "required_providers"}

\* The diagnostics are exactly one per violated condition.
OneDiagnosticPerViolation(d, braces, quotes, provider) ==
    /\ (\E i \in DOMAIN d : d[i] = ErrBraces) <=> ~braces
    /\ (\E i \in DOMAIN d : d[i] = ErrQuotes) <=> ~quotes
    /\ (\E i \in DOMAIN d : d[i] = ErrProvider) <=> ~provider
    /\ Len(d) = Cardinality({c \in {<<1, braces>>, <<2, quotes>>, <<3, provider>>} : ~c[2]})
    /\ d = << >> <=> (braces /\ quotes /\ provider)

Checked == fn = "basic_syntax_check" /\ pc = "returned"

\* C18 as stated: the checker returns the empty list exactly when the braces
\* balance, the number of unescaped double quotes is even and the provider
\* keyword occurs at least once, and every violated condition contributes its
\* own diagnostic.
C18_EmptyExactlyWhenWellFormed ==
    Checked =>
        LET s == event.content
        IN  OneDiagnosticPerViolation(result.value, BracesBalanced(s),
                                      Cardinality(QuotesNotEscaped(s)) % 2 = 0,
                                      ProviderKeywordOccurs(s))

\* C18 amended: the same, a double quote counting when the character before it
\* is not a backslash, and the provider condition being that the letters
\* provider occur anywhere in the text, inside a longer word included.
C18_EmptyExactlyWhenCoarseChecksPass ==
    Checked =>
        LET s == event.content
        IN  OneDiagnosticPerViolation(result.value, BracesBalanced(s),
                                      Cardinality(QuotesNotAfterBackslash(s)) % 2 = 0,
                                      ProviderTextOccurs(s))

\* The example a { b was checked: a brace diagnostic and a provider diagnostic.
C18_Witness ==
    /\ Checked
    /\ event.content = <<"x", "{", "x">>
    /\ result.value = <<ErrBraces, ErrProvider>>

\* ---------------------------------------------------------------------------
\* C19: the object terraform_code/{id}/main.tf holds what Convert stored, and
\* once it is stored no step of any stage writes that key again: its content
\* is the same after every step of Validate and Apply.
C19_SourceObjectImmutable ==
    /\ [](\A id \in Ids : InStore(CodeKey(id)) => s3[CodeKey(id)] \in Sources)
    /\ [][\A id \in Ids :
            InStore(CodeKey(id)) =>
                /\ CodeKey(id) \in DOMAIN s3'
                /\ s3'[CodeKey(id)] = s3[CodeKey(id)]]_vars

\* Validate and Apply have both run on a fenced source: the sandbox copy was
\* cleaned and rewritten, the stored object is still the fenced text.
C19_Witness ==
    /\ fn = "apply"
    /\ pc = "done"
    /\ result.type = "return"
    /\ InStore(ValidationKey(request_id))
    /\ s3[CodeKey(request_id)] = SrcFenced

\* ---------------------------------------------------------------------------
\* The files an Apply invocation has staged by the time it runs the tool.
StagedFiles == {".aws/config", "main.tf", "backend.tf", "versions.tf", "terraform.tfvars"}

\* C20 as stated: everything an Apply invocation stages, the copy of the tool
\* binary included, is inside its sandbox: nothing is ever staged outside it
\* and nothing staged is left when the invocation is over.
C20_EverythingStagedInSandbox ==
    /\ tmp_terraform = "none"
    /\ pc \in {"done", "idle"} => (~temp_dir /\ files = NoFiles)

\* C20 amended: the working copy and the synthesized files are inside the
\* sandbox while the tool runs and are gone when the invocation is over; the
\* copy of the tool binary is staged at one fixed path outside the sandbox
\* whenever a subprocess is run, and it stays there afterwards.
C20_OnlyTheBinaryOutsideSandbox ==
    /\ [](/\ (fn = "apply" /\ cmds # << >> /\ pc \notin {"except", "raise", "done"}) =>
                (temp_dir /\ StagedFiles \subseteq DOMAIN files)
          /\ pc \in {"done", "idle"} => (~temp_dir /\ files = NoFiles)
          /\ (fn = "apply" /\ cmds # << >>) => tmp_terraform = binEnv
          /\ tmp_terraform # "none" => tmp_terraform = binEnv)
    /\ [][tmp_terraform # "none" => tmp_terraform' = tmp_terraform]_vars

\* An Apply invocation is over: its sandbox is gone, the staged binary is not.
C20_Witness ==
    /\ pc = "idle"
    /\ \E id \in Ids : stage[id] = "Succeeded"
    /\ files = NoFiles
    /\ ~temp_dir
    /\ tmp_terraform # "none"

\* ===========================================================================
\* Validate and the first steps of Apply on a stored source drawn from a
\* bounded set: the pipeline from the moment Convert has returned its record
\* to the moment Apply is about to run init.

\* A closing comment that names the provider.
TrailingMention == <<"#", SP, "see", SP, "provider", SP, QT, "aws", QT>>

StoredBodies ==
    SynthTexts \cup
    { pre \o TrailingMention : pre \in { << >>, ResourceBlock \o <<NL>> } }

\* What Convert can have stored: a body, bare or inside a fence.
StoredSources ==
    StoredBodies \cup
    { Fence \o <<"hcl", NL>> \o body \o <<NL>> \o Fence : body \in StoredBodies }

\* Convert has stored the source of request 1 and returned its record.
InitStored ==
    /\ binEnv = "layer"
    /\ tmp_terraform = "none"
    /\ \E terraform_code \in StoredSources :
         s3 = Put([k \in {} |-> << >>], CodeKey(1), terraform_code)
    /\ sns = {}
    /\ nextId = 2
    /\ stage = [i \in Ids |-> IF i = 1 THEN "Converting" ELSE "NotStarted"]
    /\ handoff = [i \in Ids |->
                    IF i = 1
                    THEN [requestId |-> 1,
                          s3Key |-> CodeKey(1),
                          status |-> "SUCCESS",
                          message |-> "Successfully converted natural language to Terraform code"]
                    ELSE NoRecord]
    /\ validated = [i \in Ids |-> "no"]
    /\ fn = "idle"
    /\ pc = "idle"
    /\ event = NoRecord
    /\ request_id = 0
    /\ temp_dir = FALSE
    /\ files = NoFiles
    /\ success = FALSE
    /\ output = ""
    /\ cmds = << >>
    /\ e = NoError
    /\ publishes = << >>
    /\ result = NoResult

NextStored ==
    \/ \E id \in Ids : InvokeValidate(id)
    \/ Validate_Download
    \/ Validate_Check
    \/ Validate_PutObject
    \/ Validate_Except
    \/ Validate_Raise
    \/ Complete
    \/ \E id \in Ids : InvokeApply(id)
    \/ Apply_Download
    \/ Apply_Configure
    \/ Apply_Except
    \/ Apply_Raise

StoredSpec == InitStored /\ [][NextStored]_vars

\* ---------------------------------------------------------------------------
\* C21: when Validate found no diagnostic in the stored source of a request,
\* the main.tf that Apply has sanitized and configured, and is about to run
\* init on, passes the syntax checker as well: it yields no diagnostic.
C21_ConfiguredSourceStillPasses ==
    (fn = "apply" /\ pc = "init" /\ validated[request_id] = "empty") =>
        basic_syntax_check(files["main.tf"]) = << >>

\* ---------------------------------------------------------------------------
\* C22: an object at terraform_validation/{id}/validation_result.json exists
\* only if the Validate invocation of that request found no diagnostic, and it
\* then records syntax_check PASSED, no errors and status SUCCESS; a request
\* whose validation found diagnostics has no such object.
C22_ResultObjectOnlyWhenPassed ==
    \A id \in Ids :
        /\ InStore(ValidationKey(id)) =>
              /\ validated[id] = "empty"
              /\ s3[ValidationKey(id)] = <<"syntax_check", "PASSED", "errors", "status", "SUCCESS">>
        /\ validated[id] = "diagnostics" => ~InStore(ValidationKey(id))

\* A Validate invocation has stored its result and returned.
C22_Witness ==
    /\ fn = "validate"
    /\ pc = "done"
    /\ result.type = "return"
    /\ validated[request_id] = "empty"
    /\ InStore(ValidationKey(request_id))

====
